---- MODULE Spec2Model ----
(***************************************************************************)
(* Verification model of the SW_metrics static-metrics scripts:            *)
(*   src/assignment_1.py            LOC, cyclomatic complexity, call graph, *)
(*                                  fan-in/fan-out, per-module aggregation  *)
(*   src/Module 6/analyze_static.py Halstead volume, maintainability index  *)
(*                                                                         *)
(* Text is modelled at character level: a Python str is a sequence of      *)
(* one-character strings, a file's content is such a sequence, and the     *)
(* regular expressions of the source are operators over these sequences.   *)
(***************************************************************************)
EXTENDS Integers, Sequences, FiniteSets, TLC

VARIABLES
    fn_pc,      \* position of the pure-function harness: "call" | "returned" | "idle"
    fn_arg,     \* the file handed to the function applied
    fn_ret,     \* what the function returned
    pc,             \* position of main
    repo_exists,    \* whether the --repo directory exists
    langs,          \* args.langs.split(',')
    tree,           \* the files below the root (indices into Catalogue)
    files,          \* list(walk_source_files(repo, exts))
    file_idx,       \* index of `for fpath in files` in main
    per_file_rows,
    per_func_rows,
    totals,         \* total_loc, total_lloc, total_cc
    callgraph,      \* defaultdict(set): function name -> callee names
    cg,             \* build_callgraph's locals: file index, lines left, current_func
    fan_in,
    fan_out,
    fan_todo,       \* (caller, callee) pairs the fan-in loops have not reached
    module_metrics,
    report,         \* what was written to the output directory
    exit_code,      \* the process's exit status
    static_pc,      \* position of analyze_static.py's main
    java_tree,      \* the .java files below its --repo (indices into JavaCatalogue)
    java_files,     \* list(repo_path.rglob("*.java"))
    java_idx,       \* index of `for f in java_files`
    static_rows,    \* `rows`: the rows collected for the CSV
    static_out      \* the CSV file written, if any

fn_vars == <<fn_pc, fn_arg, fn_ret>>

main_vars == <<pc, repo_exists, langs, tree, files, file_idx, per_file_rows, per_func_rows,
               totals, callgraph, cg, fan_in, fan_out, fan_todo, module_metrics,
               report, exit_code>>

static_vars == <<static_pc, java_tree, java_files, java_idx, static_rows, static_out>>

vars == <<fn_vars, main_vars, static_vars>>

----------------------------------------------------------------------------
(* Bounds of the model *)

\* longest file content enumerated for count_physical_loc_file
MaxLocLen == 4
\* longest file content enumerated for compute_halstead
MaxCodeLen == 4
\* most files below the scanned root
MaxFiles == 3
\* most lines of a file enumerated for compute_cyclomatic_complexity
MaxLines == 3
\* most functions lizard reports for a file
MaxFunctions == 2

----------------------------------------------------------------------------
(* Character classes of Python's re module, over the characters used *)

Digits == {"0", "1", "2", "3", "4", "5", "6", "7", "8", "9"}
Letters == {"a", "b", "c", "d", "e", "f", "g", "h", "i", "j", "k", "l", "m",
            "n", "o", "p", "q", "r", "s", "t", "u", "v", "w", "x", "y", "z"}
\* [A-Za-z_]
IdentStart == Letters \cup {"_"}
\* \w
WordChars == IdentStart \cup Digits
\* \s, and what str.strip() removes
Whitespace == {" ", "\t", "\n", "\r"}

None == "None"

\* all sequences over S of length at most n
SeqUpTo(S, n) == UNION {[1..k -> S] : k \in 0..n}

\* s[i..], clipped
Drop(s, i) == SubSeq(s, i, Len(s))

\* s.startswith(p)
StartsWith(s, p) == Len(s) >= Len(p) /\ SubSeq(s, 1, Len(p)) = p

\* p occurs in s at index i
OccursAt(s, p, i) == i >= 1 /\ i + Len(p) - 1 <= Len(s) /\ SubSeq(s, i, i + Len(p) - 1) = p

\* p in s
Contains(s, p) == \E i \in 1..(Len(s) + 1) : OccursAt(s, p, i)

\* s.count(c) for a one-character c
CountChar(s, c) == Cardinality({i \in 1..Len(s) : s[i] = c})

\* s.strip()
Strip(s) ==
    LET keep == {i \in 1..Len(s) : s[i] \notin Whitespace}
    IN  IF keep = {} THEN <<>>
        ELSE SubSeq(s, CHOOSE i \in keep : \A j \in keep : i <= j,
                       CHOOSE i \in keep : \A j \in keep : i >= j)

----------------------------------------------------------------------------
(* Reading a file in text mode: universal newlines, then line iteration *)

\* open(path, 'r'): "\r\n" and a lone "\r" are both translated to "\n"
RECURSIVE UniversalNewlines(_)
UniversalNewlines(s) ==
    IF s = <<>> THEN <<>>
    ELSE IF s[1] = "\r"
         THEN <<"\n">> \o UniversalNewlines(
                  IF Len(s) >= 2 /\ s[2] = "\n" THEN Drop(s, 3) ELSE Drop(s, 2))
         ELSE <<s[1]>> \o UniversalNewlines(Drop(s, 2))

\* `for line in f` / f.readlines(): the lines of a translated text, each with its
\* "\n" kept; a final unterminated part is a line of its own
RECURSIVE SplitLines(_)
SplitLines(t) ==
    IF t = <<>> THEN <<>>
    ELSE LET nl == {i \in 1..Len(t) : t[i] = "\n"}
         IN  IF nl = {} THEN <<t>>
             ELSE LET k == CHOOSE i \in nl : \A j \in nl : i <= j
                  IN  <<SubSeq(t, 1, k)>> \o SplitLines(Drop(t, k + 1))

ReadLines(content) == SplitLines(UniversalNewlines(content))

\* a file as the open() call sees it: readable or not, and its raw characters
File(readable, content) == [readable |-> readable, content |-> content]

----------------------------------------------------------------------------
(* count_physical_loc_file *)

\* a plausible slip: only newline-terminated records are counted
count_physical_loc_file_terminated(file) ==
    IF ~file.readable THEN 0
    ELSE CountChar(UniversalNewlines(file.content), "\n")

count_physical_loc_file(file) ==
    IF ~file.readable THEN 0
    ELSE Len(ReadLines(file.content))

----------------------------------------------------------------------------
(* compute_halstead *)

\* a str literal of the source as a character sequence
JAVA_OPERATORS ==
    { <<"=">>, <<"+">>, <<"-">>, <<"*">>, <<"/">>, <<"%">>, <<"+", "+">>,
      <<"-", "-">>, <<"=", "=">>, <<"!", "=">>, <<">">>, <<"<">>, <<">", "=">>,
      <<"<", "=">>, <<"&", "&">>, <<"|", "|">>, <<"!">>, <<"+", "=">>,
      <<"-", "=">>, <<"*", "=">>, <<"/", "=">>, <<"%", "=">>, <<"&">>, <<"|">>,
      <<"^">>, <<"<", "<">>, <<">", ">">>, <<">", ">", ">">>, <<"?">>, <<":">>,
      <<"-", ">">>, <<":", ":">> }

\* re.sub(r'//.*', '', code): '.' stops at "\n"
RECURSIVE StripLineComments(_)
StripLineComments(s) ==
    IF s = <<>> THEN <<>>
    ELSE IF OccursAt(s, <<"/", "/">>, 1)
         THEN LET nl == {i \in 1..Len(s) : s[i] = "\n"}
              IN  IF nl = {} THEN <<>>
                  ELSE StripLineComments(
                           Drop(s, CHOOSE i \in nl : \A j \in nl : i <= j))
         ELSE <<s[1]>> \o StripLineComments(Drop(s, 2))

\* re.sub(r'/\*.*?\*/', '', code, flags=re.DOTALL): non-greedy, spans lines
RECURSIVE StripBlockComments(_)
StripBlockComments(s) ==
    IF s = <<>> THEN <<>>
    ELSE LET close == {j \in 3..Len(s) : OccursAt(s, <<"*", "/">>, j)}
         IN  IF OccursAt(s, <<"/", "*">>, 1) /\ close # {}
             THEN StripBlockComments(
                      Drop(s, (CHOOSE j \in close : \A k \in close : j <= k) + 2))
             ELSE <<s[1]>> \o StripBlockComments(Drop(s, 2))

\* length of the maximal run of word characters at the head of s
RECURSIVE WordRun(_)
WordRun(s) ==
    IF s = <<>> \/ s[1] \notin WordChars THEN 0 ELSE 1 + WordRun(Drop(s, 2))

\* re.findall(r'\b\w+\b|[^\s\w]', code): maximal words, and single symbols
RECURSIVE Tokenize(_)
Tokenize(s) ==
    IF s = <<>> THEN <<>>
    ELSE IF s[1] \in WordChars
         THEN <<SubSeq(s, 1, WordRun(s))>> \o Tokenize(Drop(s, WordRun(s) + 1))
         ELSE IF s[1] \in Whitespace
              THEN Tokenize(Drop(s, 2))
              ELSE <<SubSeq(s, 1, 1)>> \o Tokenize(Drop(s, 2))

IsOperator(t) == t \in JAVA_OPERATORS
\* t not in JAVA_OPERATORS and re.match(r'\w+', t)
IsOperand(t) == t \notin JAVA_OPERATORS /\ t # <<>> /\ t[1] \in WordChars

\* set(list)
ToSet(seq) == {seq[i] : i \in 1..Len(seq)}

\* floor(log2(n)) for n >= 1
RECURSIVE FloorLog2(_)
FloorLog2(n) == IF n <= 1 THEN 0 ELSE 1 + FloorLog2(n \div 2)

\* math.log2(n) in fixed point: floor(8 * log2(n)) = floor(log2(n^8)), exact
Log2Fixed(n) == FloorLog2(n ^ 8)

\* the counts compute_halstead derives from a file's text
HalsteadCounts(code) ==
    LET nocomments == StripBlockComments(StripLineComments(code))
        tokens     == Tokenize(nocomments)
        operators  == SelectSeq(tokens, IsOperator)
        operands   == SelectSeq(tokens, IsOperand)
    IN  [n1 |-> Cardinality(ToSet(operators)), n2 |-> Cardinality(ToSet(operands)),
         N1 |-> Len(operators), N2 |-> Len(operands)]

\* a plausible slip: the guard tests the wrong quantity and log2 is taken of
\* the token total
HalsteadVolume_total(h) ==
    IF h.N1 + h.N2 = 0 THEN 0 ELSE (h.n1 + h.n2) * Log2Fixed(h.N1 + h.N2)

\* volume = (N1 + N2) * log2(n1 + n2), 0 when n1 + n2 = 0; in eighths
HalsteadVolume(h) ==
    IF h.n1 + h.n2 = 0 THEN 0 ELSE (h.N1 + h.N2) * Log2Fixed(h.n1 + h.n2)

\* compute_halstead(file_path)['halstead_volume'], with the counts it was
\* computed from kept beside it
compute_halstead(file) ==
    IF ~file.readable
    THEN [halstead_volume |-> 0, n1 |-> 0, n2 |-> 0, N1 |-> 0, N2 |-> 0]
    ELSE LET h == HalsteadCounts(UniversalNewlines(file.content))
         IN  [halstead_volume |-> HalsteadVolume(h),
              n1 |-> h.n1, n2 |-> h.n2, N1 |-> h.N1, N2 |-> h.N2]

----------------------------------------------------------------------------
(* Regular expressions of assignment_1.py *)

Min(S) == CHOOSE i \in S : \A j \in S : i <= j

\* length of the maximal run of characters of class C in s from index i
RECURSIVE RunLen(_, _, _)
RunLen(s, i, C) ==
    IF i < 1 \/ i > Len(s) \/ s[i] \notin C THEN 0 ELSE 1 + RunLen(s, i + 1, C)

\* s[i] if there is one
CharAt(s, i) == IF i >= 1 /\ i <= Len(s) THEN s[i] ELSE None

\* \b before a word character at index i
Boundary(s, i) == i = 1 \/ CharAt(s, i - 1) \notin WordChars

\* [A-Za-z0-9_:<>]
TypeChars == WordChars \cup {":", "<", ">"}

Str_def == <<"d", "e", "f">>
Str_def_sp == <<"d", "e", "f", " ">>
Str_if == <<"i", "f">>
Str_for == <<"f", "o", "r">>
Str_while == <<"w", "h", "i", "l", "e">>
Str_case == <<"c", "a", "s", "e">>
Str_else == <<"e", "l", "s", "e">>
Str_elif == <<"e", "l", "i", "f">>
Str_else_if == <<"e", "l", "s", "e", " ", "i", "f">>
Str_except == <<"e", "x", "c", "e", "p", "t">>
Str_and == <<"&", "&">>
Str_or == <<"|", "|">>
Str_hash == <<"#">>
Str_slashes == <<"/", "/">>
Str_anon_func == <<"a", "n", "o", "n", "_", "f", "u", "n", "c">>

Ext_c == ".c"
Ext_py == ".py"
\* ('.c', '.cpp', '.java', '.js', '.ts', '.hpp', '.cc')
CLikeExts == {".c", ".cpp", ".java", ".js", ".ts", ".hpp", ".cc"}

\* a match of  <word>\s*\(  whose word (of class W, first character in F)
\* starts at i: the index of its "(", or 0
CallShapeAt(s, i, F, W) ==
    LET r == RunLen(s, i, W)
        p == i + r + RunLen(s, i + r, Whitespace)
    IN  IF CharAt(s, i) \in F /\ CharAt(s, p) = "(" THEN p ELSE 0

\* a match of  def\s+(\w+)\s*\(  at index i: the index of its "(", or 0
PyDefAt(s, i) ==
    LET w == RunLen(s, i + 3, Whitespace)
    IN  IF OccursAt(s, Str_def, i) /\ w >= 1
        THEN CallShapeAt(s, i + 3 + w, WordChars, WordChars)
        ELSE 0

\* re.findall(r"def\s+(\w+)\s*\(", s): match[0] if match else <default>
PyDefName(s, default) ==
    LET at == {i \in 1..Len(s) : PyDefAt(s, i) > 0}
    IN  IF at = {} THEN default
        ELSE LET k == Min(at) + 3 + RunLen(s, Min(at) + 3, Whitespace)
             IN  SubSeq(s, k, k + RunLen(s, k, WordChars) - 1)

\* a match of FUNC_DEF_RE_C's pattern at index i: the index where group 2
\* starts, or 0
CDefAt(s, i) ==
    LET t == RunLen(s, i, TypeChars)
        w == RunLen(s, i + t, Whitespace)
        k == i + t + w
    IN  IF /\ CharAt(s, i) \in IdentStart /\ Boundary(s, i)
           /\ w >= 1
           /\ CallShapeAt(s, k, IdentStart, WordChars) > 0
        THEN k ELSE 0

\* re.findall(r"\b([A-Za-z_][A-Za-z0-9_:<>]*)\s+([A-Za-z_][A-Za-z0-9_]*)\s*\(", s):
\* match[0][1] if match else None
CDefName(s) ==
    LET at == {i \in 1..Len(s) : CDefAt(s, i) > 0}
    IN  IF at = {} THEN None
        ELSE LET k == CDefAt(s, Min(at))
             IN  SubSeq(s, k, k + RunLen(s, k, WordChars) - 1)

\* [m.group(1) for m in RE.finditer(s)] for RE = \b(<F><W>*)\s*\( , from index i
RECURSIVE FindCalls(_, _, _)
FindCalls(s, i, W) ==
    IF i > Len(s) THEN <<>>
    ELSE IF Boundary(s, i) /\ CallShapeAt(s, i, IdentStart, W) > 0
         THEN <<SubSeq(s, i, i + RunLen(s, i, W) - 1)>>
                  \o FindCalls(s, CallShapeAt(s, i, IdentStart, W) + 1, W)
         ELSE FindCalls(s, i + 1, W)

\* FUNC_CALL_RE_PY.finditer(s)
FUNC_CALL_RE_PY(s) == FindCalls(s, 1, WordChars)
\* FUNC_CALL_RE_C.finditer(s)
FUNC_CALL_RE_C(s) == FindCalls(s, 1, TypeChars)

\* re.match(r".*\w+\s+\w+\s*\(.*\)\s*{?", s)
CcDefLineC(s) ==
    \E i \in 1..Len(s) :
        LET w == RunLen(s, i + 1, Whitespace)
            p == CallShapeAt(s, i + 1 + w, WordChars, WordChars)
        IN  /\ s[i] \in WordChars
            /\ w >= 1
            /\ p > 0
            /\ \E q \in (p + 1)..Len(s) : s[q] = ")"

\* re.findall(r"(\w+)\s*\(", s): match[0] if match else "anon_func"
CcFirstCallName(s) ==
    LET at == {i \in 1..Len(s) : CallShapeAt(s, i, WordChars, WordChars) > 0}
    IN  IF at = {} THEN Str_anon_func
        ELSE SubSeq(s, Min(at), Min(at) + RunLen(s, Min(at), WordChars) - 1)

----------------------------------------------------------------------------
(* A source file: its directory below the scanned root (a sequence of      *)
(* components), its extension, whether open() succeeds, its raw content    *)

SourceFile(dir, stem, ext, readable, content) ==
    [dir |-> dir, stem |-> stem, ext |-> ext, readable |-> readable,
     content |-> content]

\* the text of lines, each terminated by "\n"
RECURSIVE Text(_)
Text(lines) ==
    IF lines = <<>> THEN <<>> ELSE lines[1] \o <<"\n">> \o Text(Tail(lines))

----------------------------------------------------------------------------
(* count_logical_loc_file *)

\* ['if', 'for', 'while', 'case', 'else']
LlocKeywords == {Str_if, Str_for, Str_while, Str_case, Str_else}

\* what one line adds to lloc
LlocOfLine(ext, line) ==
    LET s == Strip(line)
    IN  IF s = <<>> \/ StartsWith(s, Str_hash) \/ StartsWith(s, Str_slashes)
        THEN 0
        ELSE IF ext \in CLikeExts
             THEN CountChar(s, ";")
                    + (IF \E kw \in LlocKeywords : Contains(s, kw) THEN 1 ELSE 0)
             ELSE IF ext = Ext_py THEN 1 ELSE 0

RECURSIVE SumLloc(_, _)
SumLloc(ext, lines) ==
    IF lines = <<>> THEN 0
    ELSE LlocOfLine(ext, lines[1]) + SumLloc(ext, Tail(lines))

\* a plausible slip: the lines are counted without the try/except around open()
count_logical_loc_file_unguarded(file) ==
    SumLloc(file.ext, ReadLines(file.content))

count_logical_loc_file(file) ==
    IF ~file.readable THEN 0 ELSE SumLloc(file.ext, ReadLines(file.content))

----------------------------------------------------------------------------
(* compute_cyclomatic_complexity *)

\* a dict as a sequence of <<key, value>> in insertion order
DictKeys(d) == {d[i][1] : i \in 1..Len(d)}
DictGet(d, k) == d[CHOOSE i \in 1..Len(d) : d[i][1] = k][2]
\* d[k] = v
DictSet(d, k, v) ==
    IF k \in DictKeys(d)
    THEN [i \in 1..Len(d) |-> IF d[i][1] = k THEN <<k, v>> ELSE d[i]]
    ELSE Append(d, <<k, v>>)

\* ["if", "for", "while", "case", "elif", "else if"]
CcKeywords == {Str_if, Str_for, Str_while, Str_case, Str_elif, Str_else_if}

\* a plausible slip: every occurrence of a cue is counted, not every line
DecisionPoints_per_occurrence(ext, s) ==
      Cardinality({<<kw, i>> \in CcKeywords \X (1..Len(s)) : OccursAt(s, kw, i)})
    + Cardinality({i \in 1..Len(s) : OccursAt(s, Str_and, i) \/ OccursAt(s, Str_or, i)})
    + (IF ext = Ext_py /\ Contains(s, Str_except) THEN 1 ELSE 0)

\* the decision points counted on one line
DecisionPoints(ext, s) ==
      (IF \E kw \in CcKeywords : Contains(s, kw) THEN 1 ELSE 0)
    + (IF Contains(s, Str_and) \/ Contains(s, Str_or) THEN 1 ELSE 0)
    + (IF ext = Ext_py /\ Contains(s, Str_except) THEN 1 ELSE 0)

\* whether the line starts a function, for the file's extension
CcIsDefLine(ext, s) ==
    \/ ext \in CLikeExts /\ CcDefLineC(s)
    \/ ext \notin CLikeExts /\ ext = Ext_py /\ StartsWith(s, Str_def_sp)

CcNameOf(ext, s) ==
    IF ext \in CLikeExts THEN CcFirstCallName(s) ELSE PyDefName(s, Str_anon_func)

\* `if func_name:` commits the open function
CcCommit(st) ==
    IF st.func_name # None /\ st.func_name # <<>>
    THEN [st EXCEPT !.cc_per_func = DictSet(@, st.func_name, st.cc),
                    !.cc_total = @ + st.cc]
    ELSE st

\* a plausible slip: the loop's state is committed whether or not a function
\* is open
CcFinish_always(st) ==
    [st EXCEPT !.cc_per_func = DictSet(@, st.func_name, st.cc),
               !.cc_total = @ + st.cc]

\* the commit after the loop
CcFinish(st) == CcCommit(st)

\* a plausible slip: the line's cues are counted before its definition is
\* handled, so a definition line's own cues go to the function it closes
CcLine_cues_first(ext, st, line) ==
    LET s == Strip(line)
        counted == [st EXCEPT !.cc = @ + DecisionPoints(ext, s)]
    IN  IF CcIsDefLine(ext, s)
        THEN [CcCommit(counted) EXCEPT !.func_name = CcNameOf(ext, s), !.cc = 1]
        ELSE counted

\* one iteration of the loop over lines
CcLine(ext, st, line) ==
    LET s == Strip(line)
        opened == IF CcIsDefLine(ext, s)
                  THEN [CcCommit(st) EXCEPT !.func_name = CcNameOf(ext, s), !.cc = 1]
                  ELSE st
    IN  [opened EXCEPT !.cc = @ + DecisionPoints(ext, s)]

RECURSIVE CcLoop(_, _, _)
CcLoop(ext, st, lines) ==
    IF lines = <<>> THEN st ELSE CcLoop(ext, CcLine(ext, st, lines[1]), Tail(lines))

\* returns cc_per_func, cc_total (Path(path).suffix.lower() is the extension:
\* the walker only yields lower-case extensions)
compute_cyclomatic_complexity(file) ==
    LET st0 == [func_name |-> None, cc |-> 0, cc_per_func |-> <<>>, cc_total |-> 0]
    IN  IF ~file.readable
        THEN [cc_per_func |-> <<>>, cc_total |-> 0]
        ELSE LET st == CcFinish(CcLoop(file.ext, st0, ReadLines(file.content)))
             IN  [cc_per_func |-> st.cc_per_func, cc_total |-> st.cc_total]

----------------------------------------------------------------------------
(* build_callgraph: the body of the loop over a file's lines *)

\* a plausible slip: the callee set is assigned, not added to
AddEdge_assign(graph, f, c) ==
    [g \in DOMAIN graph \cup {f} |-> IF g = f THEN {c} ELSE graph[g]]

\* callgraph[f].add(c) on a defaultdict(set)
AddEdge(graph, f, c) ==
    IF f \in DOMAIN graph
    THEN [graph EXCEPT ![f] = @ \cup {c}]
    ELSE [g \in DOMAIN graph \cup {f} |-> IF g = f THEN {c} ELSE graph[g]]

\* for c in calls: callgraph[current_func].add(c)
RECURSIVE AddEdges(_, _, _)
AddEdges(graph, f, calls) ==
    IF calls = <<>> THEN graph
    ELSE AddEdges(AddEdge(graph, f, calls[1]), f, Tail(calls))

\* `if current_func:` (None and the empty str are falsy)
Truthy(name) == name # None /\ name # <<>>

\* a plausible slip: the definition line is scanned for calls too
CgLineStep_scan_def(ext, current_func, graph, line) ==
    LET s == Strip(line)
        cur == IF ext = Ext_py /\ StartsWith(s, Str_def_sp) THEN PyDefName(s, None)
               ELSE IF ext \in CLikeExts THEN CDefName(s) ELSE current_func
    IN  [current_func |-> cur,
         callgraph |-> IF Truthy(cur) /\ ext = Ext_py
                       THEN AddEdges(graph, cur,
                                SelectSeq(FUNC_CALL_RE_PY(s), LAMBDA c : c # cur))
                       ELSE graph]

\* one iteration of `for line in lines`: the new current_func and call graph
CgLineStep(ext, current_func, graph, line) ==
    LET s == Strip(line)
    IN  IF ext = Ext_py /\ StartsWith(s, Str_def_sp)
        THEN [current_func |-> PyDefName(s, None), callgraph |-> graph]
        ELSE IF ext \in CLikeExts
             THEN [current_func |-> CDefName(s), callgraph |-> graph]
             ELSE IF Truthy(current_func)
                  THEN [current_func |-> current_func,
                        callgraph |-> AddEdges(graph, current_func,
                                         IF ext = Ext_py THEN FUNC_CALL_RE_PY(s)
                                                         ELSE FUNC_CALL_RE_C(s))]
                  ELSE [current_func |-> current_func, callgraph |-> graph]

----------------------------------------------------------------------------
(* compute_fan_in_out *)

\* {f: 0 for f in callgraph}
FanInZero(graph) == [f \in DOMAIN graph |-> 0]

\* a plausible slip: len(callgraph) for len(callees)
FanOutOf_graph_size(graph) == [f \in DOMAIN graph |-> Cardinality(DOMAIN graph)]

\* {f: len(set(callees)) for f, callees in callgraph.items()}
FanOutOf(graph) == [f \in DOMAIN graph |-> Cardinality(graph[f])]

\* a plausible slip: a name first seen as a callee is set to 1 each time
FanInCount_first_sight(fan, callee) ==
    IF callee \in DOMAIN fan /\ fan[callee] = 0
    THEN [fan EXCEPT ![callee] = 1]
    ELSE [g \in DOMAIN fan \cup {callee} |-> IF g = callee THEN 1 ELSE fan[g]]

\* the body of the inner loop, for one callee of one caller
FanInCount(fan, callee) ==
    IF callee \in DOMAIN fan
    THEN [fan EXCEPT ![callee] = @ + 1]
    ELSE [g \in DOMAIN fan \cup {callee} |-> IF g = callee THEN 1 ELSE fan[g]]

\* dict.get(key, 0)
GetOr0(d, key) == IF key \in DOMAIN d THEN d[key] ELSE 0

----------------------------------------------------------------------------
(* main: language tags, paths, module names *)

\* LANG_EXT.get(L, [])
LANG_EXT(L) ==
    CASE L = "c"    -> {".c", ".h"}
      [] L = "cpp"  -> {".cpp", ".cc", ".cxx", ".hpp", ".hh", ".hxx"}
      [] L = "java" -> {".java"}
      [] L = "py"   -> {".py"}
      [] L = "js"   -> {".js", ".jsx"}
      [] L = "ts"   -> {".ts", ".tsx"}
      [] OTHER      -> {}

\* exts += LANG_EXT.get(L, []) for L in args.langs.split(',')
ExtsOf(tags) == UNION {LANG_EXT(tags[i]) : i \in 1..Len(tags)}

\* the --repo argument as path components
RepoParts == << <<"r", "e", "p", "o">> >>

\* Path.relative_to(base): the components below base
RelativeTo(parts, base) == Drop(parts, Len(base) + 1)

\* str(Path): the components joined by "/"; the empty relative path is "."
RECURSIVE JoinSlash(_)
JoinSlash(parts) ==
    IF Len(parts) = 1 THEN parts[1]
    ELSE parts[1] \o <<"/">> \o JoinSlash(Tail(parts))

PathStr(parts) == IF parts = <<>> THEN <<".">> ELSE JoinSlash(parts)

Str_root == <<"r", "o", "o", "t">>

\* module_name = str(file_path.parent.relative_to(repo)); '' becomes 'root'
ModuleName(file) ==
    LET module_name == PathStr(RelativeTo(RepoParts \o file.dir, RepoParts))
    IN  IF module_name = <<>> THEN Str_root ELSE module_name

----------------------------------------------------------------------------
(* The file tree the runs draw from *)

Ln_def_a_b == <<"d", "e", "f", " ", "a", "(", ")", ":", " ", "b", "(", ")">>
Ln_def_c_a == <<"d", "e", "f", " ", "c", "(", ")", ":", " ", "a", "(", ")">>
Ln_def_a == <<"d", "e", "f", " ", "a", "(", ")", ":">>
Ln_def_c == <<"d", "e", "f", " ", "c", "(", ")", ":">>
Ln_b == <<" ", "b", "(", ")">>
Ln_a == <<" ", "a", "(", ")">>
Ln_a_b_a == <<" ", "a", "(", ")", ";", " ", "b", "(", "a", "(", ")", ")">>
Ln_int_f == <<"i", "n", "t", " ", "f", "(", ")", " ", "{">>
Ln_g == <<" ", "g", "(", ")", ";">>
Ln_close == <<"}">>
Ln_if_x == <<"i", "f", " ", "x", ":">>
Ln_y == <<" ", "y", "(", ")">>

Dir_m == << <<"m">> >>
Dir_m_n == << <<"m">>, <<"n">> >>

\* "def a(): b()" then "def c(): a()", directly in the scanned root
File_oneline == SourceFile(<<>>, "oneline", ".py", TRUE, Text(<<Ln_def_a_b, Ln_def_c_a>>))
\* the same two functions with each body on a line of its own
File_bodies == SourceFile(Dir_m, "bodies", ".py", TRUE, Text(<<Ln_def_a, Ln_b, Ln_def_c, Ln_a>>))
\* a second definition of c, calling a twice on one line and again on the next
File_again == SourceFile(Dir_m, "again", ".py", TRUE, Text(<<Ln_def_c, Ln_a_b_a, Ln_a>>))
\* a C function f whose body calls g
File_c == SourceFile(<<>>, "f", ".c", TRUE, Text(<<Ln_int_f, Ln_g, Ln_close>>))
\* a script with a decision point and a call but no function definition
File_script == SourceFile(Dir_m_n, "script", ".py", TRUE, Text(<<Ln_if_x, Ln_y>>))

\* a file whose open() fails (no read permission); read, it would give a -> b
File_locked == SourceFile(Dir_m, "locked", ".py", FALSE, Text(<<Ln_def_a, Ln_b>>))
\* two definition lines recovering the same name a, a decision after the first
File_twice == SourceFile(Dir_m_n, "twice", ".py", TRUE, Text(<<Ln_def_a, Ln_if_x, Ln_def_a>>))

Catalogue == <<File_oneline, File_bodies, File_again, File_c, File_script,
               File_locked, File_twice>>

\* the --langs values tried: the default, Python, both, and an unknown tag
LangsOptions == {<<"c", "cpp">>, <<"py">>, <<"c", "py">>, <<"zz">>}

\* every order of the members of S
Perms(S) ==
    {p \in [1..Cardinality(S) -> S] : \A i, j \in 1..Cardinality(S) : p[i] = p[j] => i = j}

----------------------------------------------------------------------------
(* main: per-module aggregation *)

ZeroMetrics ==
    [loc_physical |-> 0, loc_logical |-> 0, cc_total |-> 0, function_count |-> 0,
     fan_in_total |-> 0, fan_out_total |-> 0]

\* module_metrics[module_name] on the defaultdict
Touch(mm, key) ==
    IF key \in DOMAIN mm THEN mm
    ELSE [m \in DOMAIN mm \cup {key} |-> IF m = key THEN ZeroMetrics ELSE mm[m]]

\* the body of `for row in per_func_rows`
AggFuncRow(mm, row) ==
    LET key == ModuleName(Catalogue[row.file])
    IN  [Touch(mm, key) EXCEPT ![key].function_count = @ + 1,
                               ![key].cc_total = @ + row.cc,
                               ![key].fan_in_total = @ + row.fan_in,
                               ![key].fan_out_total = @ + row.fan_out]

\* a plausible slip: = for +=, the last file of a module wins
AggFileRow_assign(mm, row) ==
    LET key == ModuleName(Catalogue[row.file])
    IN  [Touch(mm, key) EXCEPT ![key].loc_physical = row.loc_physical,
                               ![key].loc_logical = row.loc_logical]

\* the body of `for row in per_file_rows`
AggFileRow(mm, row) ==
    LET key == ModuleName(Catalogue[row.file])
    IN  [Touch(mm, key) EXCEPT ![key].loc_physical = @ + row.loc_physical,
                               ![key].loc_logical = @ + row.loc_logical]

RECURSIVE AggFuncRows(_, _)
AggFuncRows(mm, rows) ==
    IF rows = <<>> THEN mm ELSE AggFuncRows(AggFuncRow(mm, rows[1]), Tail(rows))

RECURSIVE AggFileRows(_, _)
AggFileRows(mm, rows) ==
    IF rows = <<>> THEN mm ELSE AggFileRows(AggFileRow(mm, rows[1]), Tail(rows))

\* the rows one file adds to per_func_rows
FuncRows(fileId, cc_per_func) ==
    [i \in 1..Len(cc_per_func) |->
        [file |-> fileId, function |-> cc_per_func[i][1], cc |-> cc_per_func[i][2],
         fan_in |-> 0, fan_out |-> 0]]

EmptyGraph == [f \in {} |-> {}]

\* nothing has been written to the output directory
NoReport == [written |-> FALSE]

----------------------------------------------------------------------------
(* main as a state machine *)

PipelineIdle ==
    /\ pc = "idle" /\ repo_exists = FALSE /\ langs = <<>> /\ tree = {}
    /\ files = <<>> /\ file_idx = 0
    /\ per_file_rows = <<>> /\ per_func_rows = <<>>
    /\ totals = [loc |-> 0, lloc |-> 0, cc |-> 0]
    /\ callgraph = EmptyGraph /\ cg = None
    /\ fan_in = EmptyGraph /\ fan_out = EmptyGraph /\ fan_todo = {}
    /\ module_metrics = EmptyGraph
    /\ report = NoReport /\ exit_code = None

\* analyze_static.py is not running
StaticIdle ==
    /\ static_pc = "idle" /\ java_tree = {} /\ java_files = <<>> /\ java_idx = 0
    /\ static_rows = <<>> /\ static_out = [written |-> FALSE]

Init ==
    /\ fn_pc = "idle" /\ fn_arg = None /\ fn_ret = None
    /\ StaticIdle
    /\ pc = "start"
    /\ repo_exists \in BOOLEAN
    /\ langs \in LangsOptions
    /\ tree \in {t \in SUBSET (1..Len(Catalogue)) :
                    Cardinality(t) <= MaxFiles /\ (~repo_exists => t = {})}
    /\ files = <<>> /\ file_idx = 0
    /\ per_file_rows = <<>> /\ per_func_rows = <<>>
    /\ totals = [loc |-> 0, lloc |-> 0, cc |-> 0]
    /\ callgraph = EmptyGraph /\ cg = None
    /\ fan_in = EmptyGraph /\ fan_out = EmptyGraph /\ fan_todo = {}
    /\ module_metrics = EmptyGraph
    /\ report = NoReport /\ exit_code = None

\* lines 169-186: the arguments, the extension list, the walk (a missing root
\* yields no path; os.walk reports no error), the empty accumulators
Walk ==
    /\ pc = "start"
    /\ files' \in Perms({f \in tree : repo_exists /\ Catalogue[f].ext \in ExtsOf(langs)})
    /\ file_idx' = 1
    /\ pc' = "scan"
    /\ UNCHANGED <<fn_vars, static_vars, repo_exists, langs, tree, per_file_rows, per_func_rows,
                   totals, callgraph, cg, fan_in, fan_out, fan_todo, module_metrics,
                   report, exit_code>>

\* lines 187-211: one iteration of `for fpath in files`
ScanFile ==
    /\ pc = "scan" /\ file_idx <= Len(files)
    /\ LET file == Catalogue[files[file_idx]]
           loc  == count_physical_loc_file(file)
           lloc == count_logical_loc_file(file)
           c    == compute_cyclomatic_complexity(file)
       IN  /\ totals' = [loc |-> totals.loc + loc, lloc |-> totals.lloc + lloc,
                         cc |-> totals.cc + c.cc_total]
           /\ per_file_rows' = Append(per_file_rows,
                  [file |-> files[file_idx], loc_physical |-> loc, loc_logical |-> lloc,
                   cc_total |-> c.cc_total])
           /\ per_func_rows' = per_func_rows \o FuncRows(files[file_idx], c.cc_per_func)
    /\ file_idx' = file_idx + 1
    /\ UNCHANGED <<fn_vars, static_vars, pc, repo_exists, langs, tree, files, callgraph, cg,
                   fan_in, fan_out, fan_todo, module_metrics, report, exit_code>>

\* line 214, lines 125-126: build_callgraph is entered
CgEnter ==
    /\ pc = "scan" /\ file_idx > Len(files)
    /\ pc' = "callgraph"
    /\ callgraph' = EmptyGraph
    /\ cg' = [file |-> 1, open |-> FALSE, lines |-> <<>>, current_func |-> None]
    /\ UNCHANGED <<fn_vars, static_vars, repo_exists, langs, tree, files, file_idx, per_file_rows,
                   per_func_rows, totals, fan_in, fan_out, fan_todo, module_metrics,
                   report, exit_code>>

\* a plausible slip: current_func is set once, before the loop over the files
CgOpen_keep ==
    /\ pc = "callgraph" /\ ~cg.open /\ cg.file <= Len(files)
    /\ LET file == Catalogue[files[cg.file]]
       IN  cg' = IF file.readable
                 THEN [cg EXCEPT !.open = TRUE, !.lines = ReadLines(file.content)]
                 ELSE [cg EXCEPT !.file = @ + 1]
    /\ UNCHANGED <<fn_vars, static_vars, pc, repo_exists, langs, tree, files, file_idx, per_file_rows,
                   per_func_rows, totals, callgraph, fan_in, fan_out, fan_todo,
                   module_metrics, report, exit_code>>

\* lines 127-131: the next file is read; a failing open() skips the file
CgOpen ==
    /\ pc = "callgraph" /\ ~cg.open /\ cg.file <= Len(files)
    /\ LET file == Catalogue[files[cg.file]]
       IN  cg' = IF file.readable
                 THEN [cg EXCEPT !.open = TRUE, !.lines = ReadLines(file.content),
                                 !.current_func = None]
                 ELSE [cg EXCEPT !.file = @ + 1]
    /\ UNCHANGED <<fn_vars, static_vars, pc, repo_exists, langs, tree, files, file_idx, per_file_rows,
                   per_func_rows, totals, callgraph, fan_in, fan_out, fan_todo,
                   module_metrics, report, exit_code>>

\* lines 132-149: one iteration of `for line in lines`
CgLine ==
    /\ pc = "callgraph" /\ cg.open /\ cg.lines # <<>>
    /\ LET r == CgLineStep(Catalogue[files[cg.file]].ext, cg.current_func, callgraph,
                           Head(cg.lines))
       IN  /\ callgraph' = r.callgraph
           /\ cg' = [cg EXCEPT !.lines = Tail(@), !.current_func = r.current_func]
    /\ UNCHANGED <<fn_vars, static_vars, pc, repo_exists, langs, tree, files, file_idx, per_file_rows,
                   per_func_rows, totals, fan_in, fan_out, fan_todo, module_metrics,
                   report, exit_code>>

\* the file's lines are exhausted: on to the next file
CgClose ==
    /\ pc = "callgraph" /\ cg.open /\ cg.lines = <<>>
    /\ cg' = [cg EXCEPT !.open = FALSE, !.file = @ + 1]
    /\ UNCHANGED <<fn_vars, static_vars, pc, repo_exists, langs, tree, files, file_idx, per_file_rows,
                   per_func_rows, totals, callgraph, fan_in, fan_out, fan_todo,
                   module_metrics, report, exit_code>>

\* line 152, lines 155-156: build_callgraph returns and compute_fan_in_out
\* sets up its two dicts
FanEnter ==
    /\ pc = "callgraph" /\ ~cg.open /\ cg.file > Len(files)
    /\ pc' = "fan"
    /\ fan_in' = FanInZero(callgraph)
    /\ fan_out' = FanOutOf(callgraph)
    /\ fan_todo' = {p \in (DOMAIN callgraph) \X UNION {callgraph[f] : f \in DOMAIN callgraph} :
                        p[2] \in callgraph[p[1]]}
    /\ UNCHANGED <<fn_vars, static_vars, repo_exists, langs, tree, files, file_idx, per_file_rows,
                   per_func_rows, totals, callgraph, cg, module_metrics, report,
                   exit_code>>

\* lines 157-162: one (caller, callee) of the nested loops; dict and set
\* iteration orders are left open
FanStep ==
    /\ pc = "fan"
    /\ \E p \in fan_todo :
        /\ fan_in' = FanInCount(fan_in, p[2])
        /\ fan_todo' = fan_todo \ {p}
    /\ UNCHANGED <<fn_vars, static_vars, pc, repo_exists, langs, tree, files, file_idx, per_file_rows,
                   per_func_rows, totals, callgraph, cg, fan_out, module_metrics,
                   report, exit_code>>

\* lines 163, 216-219: compute_fan_in_out returns; every function row takes
\* its fan-in and fan-out
FillRows ==
    /\ pc = "fan" /\ fan_todo = {}
    /\ per_func_rows' = [i \in 1..Len(per_func_rows) |->
           [per_func_rows[i] EXCEPT !.fan_in = GetOr0(fan_in, per_func_rows[i].function),
                                    !.fan_out = GetOr0(fan_out, per_func_rows[i].function)]]
    /\ pc' = "aggregate"
    /\ UNCHANGED <<fn_vars, static_vars, repo_exists, langs, tree, files, file_idx, per_file_rows, totals,
                   callgraph, cg, fan_in, fan_out, fan_todo, module_metrics, report,
                   exit_code>>

\* lines 222-247: the per-module aggregation
Aggregate ==
    /\ pc = "aggregate"
    /\ module_metrics' = AggFileRows(AggFuncRows(EmptyGraph, per_func_rows), per_file_rows)
    /\ pc' = "write"
    /\ UNCHANGED <<fn_vars, static_vars, repo_exists, langs, tree, files, file_idx, per_file_rows,
                   per_func_rows, totals, callgraph, cg, fan_in, fan_out, fan_todo,
                   report, exit_code>>

\* lines 250-287: the CSV files, summary.json and callgraph.json are written
\* and main returns (exit status 0)
WriteReport ==
    /\ pc = "write"
    /\ report' = [written |-> TRUE,
                  per_file |-> per_file_rows,
                  per_function |-> per_func_rows,
                  per_module |-> module_metrics,
                  summary |-> [file_count |-> Len(files),
                               total_loc_physical |-> totals.loc,
                               total_loc_logical |-> totals.lloc,
                               total_cc |-> totals.cc,
                               function_count |-> Len(per_func_rows)],
                  callgraph |-> callgraph]
    /\ exit_code' = 0
    /\ pc' = "done"
    /\ UNCHANGED <<fn_vars, static_vars, repo_exists, langs, tree, files, file_idx, per_file_rows,
                   per_func_rows, totals, callgraph, cg, fan_in, fan_out, fan_todo,
                   module_metrics>>

Next ==
    \/ Walk \/ ScanFile \/ CgEnter \/ CgOpen \/ CgLine \/ CgClose
    \/ FanEnter \/ FanStep \/ FillRows \/ Aggregate \/ WriteReport

Spec == Init /\ [][Next]_vars

----------------------------------------------------------------------------
(* Harness for the pure functions: the input is drawn from a bounded set    *)
(* and one action applies the function to it.                              *)

LocAlphabet == {"x", "\n", "\r"}
CodeAlphabet == {"a", "b", "+", ";", " ", "/", "*", "\n"}

\* count_physical_loc_file on a file holding c, and on one holding c then c
CallCountPhysicalLoc ==
    /\ fn_pc = "call"
    /\ fn_ret' = [single  |-> count_physical_loc_file(fn_arg),
                  doubled |-> count_physical_loc_file(
                                  File(fn_arg.readable, fn_arg.content \o fn_arg.content))]
    /\ fn_pc' = "returned"
    /\ UNCHANGED <<fn_arg, main_vars, static_vars>>

InitLoc ==
    /\ fn_pc = "call"
    /\ fn_arg \in {File(TRUE, c) : c \in SeqUpTo(LocAlphabet, MaxLocLen)}
    /\ fn_ret = None
    /\ PipelineIdle
    /\ StaticIdle

NextLoc == CallCountPhysicalLoc

SpecLoc == InitLoc /\ [][NextLoc]_vars

CallComputeHalstead ==
    /\ fn_pc = "call"
    /\ fn_ret' = compute_halstead(fn_arg)
    /\ fn_pc' = "returned"
    /\ UNCHANGED <<fn_arg, main_vars, static_vars>>

InitHalstead ==
    /\ fn_pc = "call"
    /\ fn_arg \in {File(TRUE, c) : c \in SeqUpTo(CodeAlphabet, MaxCodeLen)}
    /\ fn_ret = None
    /\ PipelineIdle
    /\ StaticIdle

NextHalstead == CallComputeHalstead

SpecHalstead == InitHalstead /\ [][NextHalstead]_vars

----------------------------------------------------------------------------
(* Claims on count_physical_loc_file *)

\* line records of a raw content: one per terminator ("\r\n" is one
\* terminator), plus one for a non-empty unterminated tail
NumTerminators(c) ==
    Cardinality({i \in 1..Len(c) :
        \/ c[i] = "\n"
        \/ c[i] = "\r" /\ ~(i < Len(c) /\ c[i + 1] = "\n")})

EndsTerminated(c) == c # <<>> /\ c[Len(c)] \in {"\n", "\r"}

NumLineRecords(c) ==
    NumTerminators(c) + (IF c # <<>> /\ ~EndsTerminated(c) THEN 1 ELSE 0)

\* C4 as stated: the count is the number of line records, and the physical LOC
\* of c followed by c is twice that of c for every content c, newline-terminated
\* or not.
C4_Original ==
    fn_pc = "returned" =>
        /\ fn_ret.single = NumLineRecords(fn_arg.content)
        /\ fn_ret.doubled = 2 * fn_ret.single

\* C4 amended: count_physical_loc_file returns the number of line records,
\* a final unterminated line counting as one; the physical LOC of c followed by
\* c is exactly twice that of c for every content c that is empty or ends with
\* "\n"; when the last line of c is unterminated it is one less than twice.
C4_PhysicalLoc ==
    fn_pc = "returned" =>
        /\ fn_ret.single = NumLineRecords(fn_arg.content)
        /\ (fn_arg.content = <<>> \/ fn_arg.content[Len(fn_arg.content)] = "\n")
             => fn_ret.doubled = 2 * fn_ret.single
        /\ (fn_arg.content # <<>> /\ ~EndsTerminated(fn_arg.content))
             => fn_ret.doubled = 2 * fn_ret.single - 1

\* a content with two terminated lines and a final partial one has been counted
C4_Witness ==
    /\ fn_pc = "returned"
    /\ fn_arg.content = <<"x", "\n", "\n", "x">>
    /\ fn_ret.single = 3
    /\ fn_ret.doubled = 5

----------------------------------------------------------------------------
(* Claims on compute_halstead *)

\* C5 as stated: the volume is never negative and is 0 if and only if the
\* stripped token stream holds no operator and no operand (N1 + N2 = 0).
C5_Original ==
    fn_pc = "returned" =>
        /\ fn_ret.halstead_volume >= 0
        /\ (fn_ret.halstead_volume = 0 <=> fn_ret.N1 + fn_ret.N2 = 0)

\* C5 amended: the volume is never negative, and it is 0 if and only if the
\* stripped token stream holds at most one distinct operator-or-operand
\* (n1 + n2 <= 1, which includes the empty stream); any stream with at least
\* two distinct operator/operand tokens yields a strictly positive volume.
C5_Volume ==
    fn_pc = "returned" =>
        /\ fn_ret.halstead_volume >= 0
        /\ (fn_ret.halstead_volume = 0 <=> fn_ret.n1 + fn_ret.n2 <= 1)
        /\ (fn_ret.n1 + fn_ret.n2 >= 2 => fn_ret.halstead_volume > 0)

\* "a+a;" has been measured: tokens a + a ; give N = 3 over n = 2 distinct
C5_Witness ==
    /\ fn_pc = "returned"
    /\ fn_arg.content = <<"a", "+", "a", ";">>
    /\ fn_ret.N1 = 1 /\ fn_ret.N2 = 2 /\ fn_ret.n1 = 1 /\ fn_ret.n2 = 1
    /\ fn_ret.halstead_volume = 3 * 8

----------------------------------------------------------------------------
(* Harness for compute_cyclomatic_complexity: files made of up to          *)
(* MaxLines lines of a small vocabulary, as C and as Python                *)

Ln_if_and == <<"i", "f", " ", "(", "x", " ", "&", "&", " ", "y", ")">>
\* two if statements and the && on one line
Ln_if_if_and == <<"i", "f", " ", "(", "x", ")", " ", "i", "f", " ", "(", "y", " ", "&", "&",
                  " ", "z", ")", " ", "w", ";">>

\* a line that the C-like heuristic takes for the definition of `if`
Ln_else_if == <<"e", "l", "s", "e", " ", "i", "f", " ", "(", "x", " ", "|", "|", " ", "y",
                ")", " ", "{">>
Ln_except == <<"e", "x", "c", "e", "p", "t", ":">>

CcLines == {Ln_def_a, Ln_int_f, Ln_if_x, Ln_if_and, Ln_if_if_and, Ln_y, Ln_g,
            Ln_else_if, Ln_except}

CallComputeComplexity ==
    /\ fn_pc = "call"
    /\ fn_ret' = compute_cyclomatic_complexity(fn_arg)
    /\ fn_pc' = "returned"
    /\ UNCHANGED <<fn_arg, main_vars, static_vars>>

InitCC ==
    /\ fn_pc = "call"
    /\ fn_arg \in {SourceFile(<<>>, "t", ext, TRUE, Text(ls)) :
                      ext \in {Ext_c, Ext_py}, ls \in SeqUpTo(CcLines, MaxLines)}
    /\ fn_ret = None
    /\ PipelineIdle
    /\ StaticIdle

NextCC == CallComputeComplexity

SpecCC == InitCC /\ [][NextCC]_vars

----------------------------------------------------------------------------
(* Claims on compute_cyclomatic_complexity *)

\* no line of the file matches the function-definition heuristic
NoDefLine(file) ==
    \A i \in 1..Len(ReadLines(file.content)) :
        ~CcIsDefLine(file.ext, Strip(ReadLines(file.content)[i]))

----------------------------------------------------------------------------
(* Scenario A *)

\* the number of places at which p occurs in s
CountOcc(s, p) == Cardinality({i \in 1..Len(s) : OccursAt(s, p, i)})

\* the number of lines on which one of the patterns of ps occurs
LinesWith(lines, ps) ==
    Cardinality({i \in 1..Len(lines) : \E p \in ps : Contains(Strip(lines[i]), p)})

\* a C-like file consisting of one function, opened by its first line, whose
\* text holds `if` twice and `&&` once
ScenarioAFile(file) ==
    LET lines == ReadLines(file.content)
    IN  /\ file.ext \in CLikeExts
        /\ lines # <<>>
        /\ CDefName(Strip(lines[1])) # None
        /\ \A i \in 2..Len(lines) : CDefName(Strip(lines[i])) = None
        /\ CountOcc(file.content, Str_if) = 2
        /\ CountOcc(file.content, Str_and) = 1
        /\ CountOcc(file.content, Str_or) = 0

\* C11 as stated: a C-like file consisting of one function whose text holds
\* two if statements and one && yields complexity 4 for that function and as
\* the file total, whatever the layout of the statements across lines.
C11_Original ==
    (fn_pc = "returned" /\ ScenarioAFile(fn_arg)) =>
        /\ fn_ret.cc_per_func = << <<CDefName(Strip(ReadLines(fn_arg.content)[1])), 4>> >>
        /\ fn_ret.cc_total = 4

\* C11 amended: for a C-like file whose first line is its only line matching
\* the function-definition heuristic, compute_cyclomatic_complexity reports
\* one function whose complexity, equal to the file total, is 1 + the number
\* of lines holding a control keyword + the number of lines holding && or ||;
\* with two ifs and one && that is 4 when the two ifs stand on different
\* lines and 3 when they share a line.
C11_ScenarioA ==
    LET lines == ReadLines(fn_arg.content)
        score == 1 + LinesWith(lines, CcKeywords) + LinesWith(lines, {Str_and, Str_or})
    IN  (/\ fn_pc = "returned"
         /\ fn_arg.ext \in CLikeExts
         /\ lines # <<>>
         /\ CcIsDefLine(fn_arg.ext, Strip(lines[1]))
         /\ \A i \in 2..Len(lines) : ~CcIsDefLine(fn_arg.ext, Strip(lines[i]))) =>
            /\ fn_ret.cc_per_func = << <<CcNameOf(fn_arg.ext, Strip(lines[1])), score>> >>
            /\ fn_ret.cc_total = score
            /\ ScenarioAFile(fn_arg) =>
                  fn_ret.cc_total = (IF LinesWith(lines, {Str_if}) = 2 THEN 4 ELSE 3)

\* the function with an if on one line and an if with && on the next has
\* been measured: 4
C11_Witness ==
    /\ fn_pc = "returned"
    /\ fn_arg.ext = Ext_c
    /\ fn_arg.content = Text(<<Ln_int_f, Ln_if_x, Ln_if_and>>)
    /\ ScenarioAFile(fn_arg)
    /\ fn_ret.cc_per_func = << << <<"f">>, 4>> >>
    /\ fn_ret.cc_total = 4

----------------------------------------------------------------------------
(* Order-free forms of what a run computes, over the set of scanned files  *)

\* build_callgraph's loop over the lines of one file, from an empty graph
RECURSIVE CgLoop(_, _, _, _)
CgLoop(ext, current_func, graph, lines) ==
    IF lines = <<>> THEN graph
    ELSE LET r == CgLineStep(ext, current_func, graph, lines[1])
         IN  CgLoop(ext, r.current_func, r.callgraph, Tail(lines))

FileGraph(file) ==
    IF ~file.readable THEN EmptyGraph
    ELSE CgLoop(file.ext, None, EmptyGraph, ReadLines(file.content))

\* the graph, and the three per-file measures, of every file of the catalogue
CatalogueGraphs == [i \in 1..Len(Catalogue) |-> FileGraph(Catalogue[i])]
CatalogueMeasures ==
    [i \in 1..Len(Catalogue) |->
        [loc |-> count_physical_loc_file(Catalogue[i]),
         lloc |-> count_logical_loc_file(Catalogue[i]),
         cc |-> compute_cyclomatic_complexity(Catalogue[i])]]

\* the union by name of the graphs of the files of S
UnionGraph(S) ==
    [f \in UNION {DOMAIN CatalogueGraphs[i] : i \in S} |->
        UNION {CatalogueGraphs[i][f] : i \in {j \in S : f \in DOMAIN CatalogueGraphs[j]}}]

Callees(graph) == UNION {graph[f] : f \in DOMAIN graph}
Callers(graph, f) == {c \in DOMAIN graph : f \in graph[c]}

RECURSIVE SumSeq(_)
SumSeq(ns) == IF ns = <<>> THEN 0 ELSE ns[1] + SumSeq(Tail(ns))

\* the members of S in one fixed order
Listed(S) == CHOOSE p \in Perms(S) : TRUE

\* the six totals of module key over the files of S
ModuleTotals(S, key) ==
    LET fs  == Listed({i \in S : ModuleName(Catalogue[i]) = key})
        g   == UnionGraph(S)
        ccs == [i \in 1..Len(fs) |-> CatalogueMeasures[fs[i]].cc.cc_per_func]
    IN  [loc_physical |-> SumSeq([i \in 1..Len(fs) |-> CatalogueMeasures[fs[i]].loc]),
         loc_logical |-> SumSeq([i \in 1..Len(fs) |-> CatalogueMeasures[fs[i]].lloc]),
         cc_total |-> SumSeq([i \in 1..Len(fs) |->
                         SumSeq([j \in 1..Len(ccs[i]) |-> ccs[i][j][2]])]),
         function_count |-> SumSeq([i \in 1..Len(fs) |-> Len(ccs[i])]),
         fan_in_total |-> SumSeq([i \in 1..Len(fs) |->
                         SumSeq([j \in 1..Len(ccs[i]) |-> Cardinality(Callers(g, ccs[i][j][1]))])]),
         fan_out_total |-> SumSeq([i \in 1..Len(fs) |->
                         SumSeq([j \in 1..Len(ccs[i]) |->
                             IF ccs[i][j][1] \in DOMAIN g THEN Cardinality(g[ccs[i][j][1]]) ELSE 0])])]

SummaryOf(S) ==
    LET fs == Listed(S)
    IN  [file_count |-> Cardinality(S),
         total_loc_physical |-> SumSeq([i \in 1..Len(fs) |-> CatalogueMeasures[fs[i]].loc]),
         total_loc_logical |-> SumSeq([i \in 1..Len(fs) |-> CatalogueMeasures[fs[i]].lloc]),
         total_cc |-> SumSeq([i \in 1..Len(fs) |-> CatalogueMeasures[fs[i]].cc.cc_total]),
         function_count |-> SumSeq([i \in 1..Len(fs) |->
                               Len(CatalogueMeasures[fs[i]].cc.cc_per_func)])]

Scanned == ToSet(files)
AfterFan == pc \in {"aggregate", "write", "done"}

----------------------------------------------------------------------------
(* Claims on build_callgraph *)

\* the edges the stated rule gives for one file: a definition line sets the
\* current function; any other line read while a current function is set
\* gives an edge to each of its call-like tokens
RECURSIVE StatedEdges(_, _, _)
StatedEdges(ext, cur, lines) ==
    IF lines = <<>> THEN {}
    ELSE LET s == Strip(lines[1])
             isdef == IF ext = Ext_py THEN StartsWith(s, Str_def_sp)
                                      ELSE CDefName(s) # None
             name == IF ext = Ext_py THEN PyDefName(s, None) ELSE CDefName(s)
             calls == IF ext = Ext_py THEN FUNC_CALL_RE_PY(s) ELSE FUNC_CALL_RE_C(s)
         IN  IF isdef THEN StatedEdges(ext, name, Tail(lines))
             ELSE (IF Truthy(cur) THEN {<<cur, t>> : t \in ToSet(calls)} ELSE {})
                      \cup StatedEdges(ext, cur, Tail(lines))

\* C1 as stated: for a file of either language family, every non-definition
\* line read while a current function f is set adds an edge f -> t for every
\* call-like token t of the line; a C function f whose body holds "g(" ends
\* with g in CallGraph[f].
C1_Original ==
    AfterFan =>
        \A i \in {j \in Scanned : Catalogue[j].readable} :
            \A e \in StatedEdges(Catalogue[i].ext, None, ReadLines(Catalogue[i].content)) :
                e[1] \in DOMAIN callgraph /\ e[2] \in callgraph[e[1]]

----------------------------------------------------------------------------
(* Claims on the per-module aggregation *)

\* the key the stated rule gives a file: "root" directly in the scanned root,
\* else the directory's path relative to the root
StatedModuleKey(file) == IF file.dir = <<>> THEN Str_root ELSE JoinSlash(file.dir)

\* C2 as stated: every file directly in the scanned root is aggregated under
\* the key "root", every other file under its directory's relative path, and
\* no other key is used.
C2_Original ==
    pc = "done" =>
        DOMAIN module_metrics = {StatedModuleKey(Catalogue[i]) : i \in Scanned}

----------------------------------------------------------------------------
(* Claims on configuration failures *)

\* C6 as stated: when the root does not exist, or the language tags leave an
\* empty extension set, main reports the failure (non-zero exit) before any
\* file is scanned and writes no normal report.
C6_Original ==
    (~repo_exists \/ ExtsOf(langs) = {}) =>
        /\ ~report.written
        /\ (pc = "done" => exit_code # 0)

----------------------------------------------------------------------------
(* Claims on compute_fan_in_out *)

\* C7: once compute_fan_in_out has returned, fan_in has an entry for every
\* graph key and every called name, and fan_in(f) is the number of distinct
\* graph keys whose callee set contains f (0 for a key nobody calls), in
\* whatever order the entries were iterated.
C7_FanIn ==
    AfterFan =>
        /\ DOMAIN fan_in = DOMAIN callgraph \cup Callees(callgraph)
        /\ \A f \in DOMAIN fan_in : fan_in[f] = Cardinality(Callers(callgraph, f))

\* b is called by a and by c and defined nowhere; c is a key nobody calls
C7_Witness ==
    /\ pc = "done"
    /\ Scanned = {2, 3}
    /\ <<"b">> \notin DOMAIN callgraph
    /\ <<"b">> \in DOMAIN fan_in
    /\ fan_in[<<"b">>] = 2
    /\ <<"c">> \in DOMAIN callgraph
    /\ fan_in[<<"c">>] = 0

\* the call-like tokens on the lines build_callgraph attributes to f, with
\* repetitions, over the scanned files
RECURSIVE CallSites(_, _, _, _)
CallSites(ext, cur, f, lines) ==
    IF lines = <<>> THEN <<>>
    ELSE LET s == Strip(lines[1])
             r == CgLineStep(ext, cur, EmptyGraph, lines[1])
         IN  (IF r.callgraph # EmptyGraph /\ cur = f
              THEN (IF ext = Ext_py THEN FUNC_CALL_RE_PY(s) ELSE FUNC_CALL_RE_C(s))
              ELSE <<>>)
                 \o CallSites(ext, r.current_func, f, Tail(lines))

SitesOf(f) ==
    UNION {ToSet(CallSites(Catalogue[i].ext, None, f, ReadLines(Catalogue[i].content))) :
              i \in {j \in Scanned : Catalogue[j].readable}}

\* C8: fan_out has exactly the graph keys; fan_out(f) is the number of
\* distinct callee names recorded for f, however many call sites name them
\* and however many files define f; a function row whose name is no graph
\* key is reported with fan_out 0.
C8_FanOut ==
    AfterFan =>
        /\ DOMAIN fan_out = DOMAIN callgraph
        /\ \A f \in DOMAIN callgraph :
              /\ fan_out[f] = Cardinality(callgraph[f])
              /\ fan_out[f] = Cardinality(SitesOf(f))
        /\ \A i \in 1..Len(per_func_rows) :
              per_func_rows[i].fan_out =
                  IF per_func_rows[i].function \in DOMAIN callgraph
                  THEN Cardinality(callgraph[per_func_rows[i].function])
                  ELSE 0

\* c is defined in two files and calls a at four sites and b at one: fan_out
\* 2; the C function f has a row and is no graph key: fan_out 0
C8_Witness ==
    /\ pc = "done"
    /\ Scanned = {2, 3, 4}
    /\ fan_out[<<"c">>] = 2
    /\ \E i \in 1..Len(per_func_rows) :
          /\ per_func_rows[i].function = <<"f">>
          /\ per_func_rows[i].function \notin DOMAIN callgraph
          /\ per_func_rows[i].fan_out = 0

----------------------------------------------------------------------------
(* Claims on the merge *)

\* C9: whatever the order in which the files are processed, the run ends with
\* the call graph, the fan-in and fan-out of every name, the module
\* aggregates and the summary totals that the set of files alone determines.
C9_OrderIndependent ==
    pc = "done" =>
        /\ report.callgraph = UnionGraph(Scanned)
        /\ fan_in = [f \in DOMAIN UnionGraph(Scanned) \cup Callees(UnionGraph(Scanned)) |->
                        Cardinality(Callers(UnionGraph(Scanned), f))]
        /\ fan_out = [f \in DOMAIN UnionGraph(Scanned) |-> Cardinality(UnionGraph(Scanned)[f])]
        /\ report.per_module = [key \in {ModuleName(Catalogue[i]) : i \in Scanned} |->
                                   ModuleTotals(Scanned, key)]
        /\ report.summary = SummaryOf(Scanned)

\* two files of one module, defining the same name c, were processed with
\* the later catalogue entry first
C9_Witness ==
    /\ pc = "done"
    /\ files = <<3, 2>>
    /\ report.callgraph[<<"c">>] = {<<"a">>, <<"b">>}
    /\ report.per_module[<<"m">>].loc_physical = 7

----------------------------------------------------------------------------
(* Scenario B *)

GraphB == (<<"a">> :> {<<"b">>}) @@ (<<"c">> :> {<<"a">>})

\* C10 as stated: the file "def a(): b()" / "def c(): a()" yields the call
\* graph {a: {b}, c: {a}}, fan_out(a) = fan_out(c) = 1, fan_in(a) = 1,
\* fan_in(b) = 1, fan_in(c) = 0.
C10_Original ==
    (pc = "done" /\ files = <<1>>) =>
        /\ callgraph = GraphB
        /\ fan_out = (<<"a">> :> 1) @@ (<<"c">> :> 1)
        /\ fan_in = (<<"a">> :> 1) @@ (<<"b">> :> 1) @@ (<<"c">> :> 0)

\* C10 amended: a Python file with the lines "def a():", " b()", "def c():",
\* " a()" (each body on a line after its def line) yields the call graph
\* {a: {b}, c: {a}} with fan_out(a) = fan_out(c) = 1, fan_in(a) = 1,
\* fan_in(b) = 1, fan_in(c) = 0; the two-line file "def a(): b()" /
\* "def c(): a()" yields an empty call graph and no fan-in or fan-out entry,
\* its calls being on definition lines.
C10_ScenarioB ==
    /\ (pc = "done" /\ files = <<2>>) =>
          /\ callgraph = GraphB
          /\ fan_out = (<<"a">> :> 1) @@ (<<"c">> :> 1)
          /\ fan_in = (<<"a">> :> 1) @@ (<<"b">> :> 1) @@ (<<"c">> :> 0)
    /\ (pc = "done" /\ files = <<1>>) =>
          /\ callgraph = EmptyGraph
          /\ fan_out = EmptyGraph
          /\ fan_in = EmptyGraph

\* the four-line file has been processed alone, to the end
C10_Witness ==
    /\ pc = "done"
    /\ files = <<2>>
    /\ Catalogue[2].content = Text(<<Ln_def_a, Ln_b, Ln_def_c, Ln_a>>)
    /\ callgraph = GraphB

----------------------------------------------------------------------------
(* Claims on unreadable files *)

ReadableScanned == {i \in Scanned : Catalogue[i].readable}
UnreadableScanned == {i \in Scanned : ~Catalogue[i].readable}

\* the rows of a table that belong to file i
RowsOf(table, i) == SelectSeq(table, LAMBDA r : r.file = i)

\* C12: a file whose open() fails never aborts the run: the run still ends
\* with a report in which the file has its per-file row, with loc_physical =
\* loc_logical = cc_total = 0, and no function row; it adds no edge to the
\* call graph; and the call graph, the fan-in and fan-out, the module
\* aggregates of the other files' modules and the summary totals are the ones
\* the readable files alone determine.
C12_UnreadableFiles ==
    pc = "done" =>
          /\ report.written /\ exit_code = 0
          /\ \A i \in UnreadableScanned :
                /\ RowsOf(report.per_file, i) =
                      << [file |-> i, loc_physical |-> 0, loc_logical |-> 0, cc_total |-> 0] >>
                /\ RowsOf(report.per_function, i) = <<>>
          /\ report.callgraph = UnionGraph(ReadableScanned)
          /\ \A f \in DOMAIN fan_out : fan_out[f] = Cardinality(UnionGraph(ReadableScanned)[f])
          /\ \A f \in DOMAIN fan_in : fan_in[f] = Cardinality(Callers(UnionGraph(ReadableScanned), f))
          /\ \A key \in {ModuleName(Catalogue[i]) : i \in ReadableScanned} :
                report.per_module[key] = ModuleTotals(ReadableScanned, key)
          /\ report.summary.total_loc_physical = SummaryOf(ReadableScanned).total_loc_physical
          /\ report.summary.total_loc_logical = SummaryOf(ReadableScanned).total_loc_logical
          /\ report.summary.total_cc = SummaryOf(ReadableScanned).total_cc
          /\ report.summary.function_count = SummaryOf(ReadableScanned).function_count

\* the unreadable file was processed first, then a file of the same module;
\* the report has the zero row and the second file's edges
C12_Witness ==
    /\ pc = "done"
    /\ files = <<6, 2>>
    /\ ~Catalogue[6].readable
    /\ report.per_file[1] = [file |-> 6, loc_physical |-> 0, loc_logical |-> 0, cc_total |-> 0]
    /\ report.per_file[2].loc_physical = 4
    /\ report.callgraph = GraphB
    /\ report.per_module[<<"m">>].loc_physical = 4

----------------------------------------------------------------------------
(* Claims on the consistency of the report *)

\* the sum of the cc column of a table of function rows
SumCc(table) == SumSeq([i \in 1..Len(table) |-> table[i].cc])

\* the sum of cc_total over the module aggregates
SumModuleCc(mm) ==
    SumSeq([i \in 1..Cardinality(DOMAIN mm) |-> mm[Listed(DOMAIN mm)[i]].cc_total])

\* C13 as stated: in the report every file's cc_total is the sum of the cc
\* of the function rows produced for that file, and the summary's total_cc
\* is the sum of cc_total over the module aggregates and the sum of cc over
\* all function rows, also when two definition lines of a file recover the
\* same name.
C13_Original ==
    pc = "done" =>
        /\ \A i \in 1..Len(report.per_file) :
              report.per_file[i].cc_total =
                  SumCc(RowsOf(report.per_function, report.per_file[i].file))
        /\ report.summary.total_cc = SumModuleCc(report.per_module)
        /\ report.summary.total_cc = SumCc(report.per_function)

----------------------------------------------------------------------------
(* Harness for count_logical_loc_file: files of up to MaxLines lines, under *)
(* an extension of the code's C-like tuple, a registered extension outside  *)
(* it, and .py                                                             *)

Ln_directive == <<"#", "d", "e", "f", "i", "n", "e", " ", "n", " ", "1", ";">>
Ln_comment == <<"/", "/", " ", "c", ";">>
Ln_blank == <<" ", " ">>

LlocLines == {Ln_g, Ln_directive, Ln_comment, Ln_if_if_and, Ln_blank}

Ext_h == ".h"

CallCountLogicalLoc ==
    /\ fn_pc = "call"
    /\ fn_ret' = count_logical_loc_file(fn_arg)
    /\ fn_pc' = "returned"
    /\ UNCHANGED <<fn_arg, main_vars, static_vars>>

InitLloc ==
    /\ fn_pc = "call"
    /\ fn_arg \in {SourceFile(<<>>, "t", ext, TRUE, Text(ls)) :
                      ext \in {Ext_c, Ext_h, Ext_py}, ls \in SeqUpTo(LlocLines, MaxLines)}
    /\ fn_ret = None
    /\ PipelineIdle
    /\ StaticIdle

NextLloc == CallCountLogicalLoc

SpecLloc == InitLloc /\ [][NextLloc]_vars

----------------------------------------------------------------------------
(* Claims on count_logical_loc_file *)

\* what a counted line adds: for a C-like file one per ";" plus one for a
\* control keyword, for a Python file one
StatedWeight(clike, s) ==
    IF clike
    THEN CountChar(s, ";") + (IF \E kw \in LlocKeywords : Contains(s, kw) THEN 1 ELSE 0)
    ELSE 1

\* the stated count when the comment marker is chosen by language family:
\* "//" for a C-like file, "#" for a Python file
RECURSIVE StatedLlocByFamily(_, _)
StatedLlocByFamily(clike, lines) ==
    IF lines = <<>> THEN 0
    ELSE LET s == Strip(lines[1])
             skipped == s = <<>> \/ StartsWith(s, IF clike THEN Str_slashes ELSE Str_hash)
         IN  (IF skipped THEN 0 ELSE StatedWeight(clike, s))
                 + StatedLlocByFamily(clike, Tail(lines))

\* C14 as stated: in a C-like file only the lines whose trimmed text is empty
\* or starts with "//" are skipped, a line starting with "#" being counted
\* like any other code line; in a Python file only empty lines and lines
\* starting with "#" are skipped.
C14_Original ==
    (fn_pc = "returned" /\ fn_arg.ext \in CLikeExts \cup {Ext_py}) =>
        fn_ret = StatedLlocByFamily(fn_arg.ext \in CLikeExts, ReadLines(fn_arg.content))

\* the stated count over the lines the function does not skip (trimmed text
\* not empty and starting with neither marker)
RECURSIVE StatedLloc(_, _)
StatedLloc(clike, lines) ==
    IF lines = <<>> THEN 0
    ELSE LET s == Strip(lines[1])
             skipped == s = <<>> \/ StartsWith(s, Str_hash) \/ StartsWith(s, Str_slashes)
         IN  (IF skipped THEN 0 ELSE StatedWeight(clike, s)) + StatedLloc(clike, Tail(lines))

\* C15 as stated: for a file of any extension registered for the tags c, cpp,
\* java, js, ts, loc_logical is the sum over the non-skipped lines of the
\* number of ";" plus one for a control keyword; for a .py file it is the
\* number of non-skipped lines.
C15_Original ==
    fn_pc = "returned" =>
        /\ fn_arg.ext \in ExtsOf(<<"c", "cpp", "java", "js", "ts">>) =>
              fn_ret = StatedLloc(TRUE, ReadLines(fn_arg.content))
        /\ fn_arg.ext = Ext_py =>
              fn_ret = StatedLloc(FALSE, ReadLines(fn_arg.content))

----------------------------------------------------------------------------
(* Claims on the merge discipline of build_callgraph *)

\* the files build_callgraph has finished with
CgCompleted == {files[j] : j \in 1..(cg.file - 1)}

\* C16 as stated: while build_callgraph scans a file the shared call graph is
\* not modified, the file's edges being added only once its scan is complete:
\* at every point of the run at which it can be aborted the graph holds, for
\* each file, either all of its edges or none.
C16_Original ==
    pc = "callgraph" =>
        \/ callgraph = UnionGraph(CgCompleted)
        \/ cg.open /\ callgraph = UnionGraph(CgCompleted \cup {files[cg.file]})

----------------------------------------------------------------------------
(* analyze_static.py: compute_loc_and_comments *)

\* re.match(r'\s*//', line)
IsSingleComment(line) == OccursAt(line, Str_slashes, RunLen(line, 1, Whitespace) + 1)

\* sum(mc.count("\n") + 1 for mc in re.findall(r'/\*.*?\*/', code, flags=re.DOTALL))
RECURSIVE MultiCommentLines(_)
MultiCommentLines(s) ==
    IF s = <<>> THEN 0
    ELSE LET close == {j \in 3..Len(s) : OccursAt(s, <<"*", "/">>, j)}
         IN  IF OccursAt(s, <<"/", "*">>, 1) /\ close # {}
             THEN CountChar(SubSeq(s, 1, Min(close) + 1), "\n") + 1
                      + MultiCommentLines(Drop(s, Min(close) + 2))
             ELSE MultiCommentLines(Drop(s, 2))

\* returns total_lines, comment_percentage; the percentage in hundredths of
\* a percent, rounded down, with the comment-line count kept beside it
compute_loc_and_comments(file) ==
    LET lines == ReadLines(file.content)
        single_comment == Cardinality({i \in 1..Len(lines) : IsSingleComment(lines[i])})
        comment_lines == single_comment + MultiCommentLines(UniversalNewlines(file.content))
    IN  IF ~file.readable \/ Len(lines) = 0
        THEN [total_lines |-> 0, comment_percentage |-> 0, comment_lines |-> 0]
        ELSE [total_lines |-> Len(lines),
              comment_percentage |-> (comment_lines * 10000) \div Len(lines),
              comment_lines |-> comment_lines]

----------------------------------------------------------------------------
(* analyze_static.py: analyze_java_file.  lizard is not part of the         *)
(* repository: what lizard.analyze_file.analyze_source_code returns (or     *)
(* that it raises) is an input, a record                                    *)
(*   [ok, function_list, nloc]                                              *)
(* with one [cyclomatic_complexity, length, max_nested_depth] per function. *)
(* Reals are kept in fixed point: the Halstead volume in eighths, cc_avg    *)
(* and the maintainability index in thousandths.                            *)

Analysis(ok, function_list, nloc) ==
    [ok |-> ok, function_list |-> function_list, nloc |-> nloc]

Function(cc, length, depth) ==
    [cyclomatic_complexity |-> cc, length |-> length, max_nested_depth |-> depth]

Max(S) == CHOOSE i \in S : \A j \in S : i >= j

Abs(x) == IF x < 0 THEN -x ELSE x

\* the 10 fraction bits of log2(x / 4096) for 4096 <= x < 8192, by squaring
RECURSIVE Log2Frac(_, _)
Log2Frac(x, bits) ==
    IF bits = 0 THEN 0
    ELSE LET y == (x * x) \div 4096
         IN  IF y >= 8192 THEN 2 ^ (bits - 1) + Log2Frac(y \div 2, bits - 1)
                          ELSE Log2Frac(y, bits - 1)

\* math.log(n) for an integer n >= 1, in thousandths: log2(n) * ln 2
Ln1000(n) ==
    LET e == FloorLog2(n)
        log2q == e * 1024 + Log2Frac((n * 4096) \div (2 ^ e), 10)
    IN  (log2q * 6931) \div 10240

\* line 118: 171 - 5.2*log(|hv|+1) - 0.23*cc_val - 16.2*log(|nloc|+1), in
\* thousandths; hv is in eighths, so log(hv + 1) = log(hv8 + 8) - log(8)
RawMaintainability(hv, cc_val, nloc) ==
    171000 - (52 * (Ln1000(Abs(hv) + 8) - Ln1000(8))) \div 10
           - (23 * cc_val) \div 100
           - (162 * Ln1000(Abs(nloc) + 1)) \div 10

\* a plausible slip: the index is returned as computed, without the clamp
Clamp_none(lo, hi, x) == x

\* max(lo, min(hi, x))
Clamp(lo, hi, x) == IF x > hi THEN hi ELSE IF x < lo THEN lo ELSE x

\* a plausible slip: the zero substitutions of lines 115-117 are left out
JavaMetrics_unfloored(hal_vol, analysis) ==
    LET fl == analysis.function_list
        ccs == [i \in 1..Len(fl) |-> fl[i].cyclomatic_complexity]
        cc_avg == IF ccs # <<>> THEN (SumSeq(ccs) * 1000) \div Len(ccs) ELSE 1000
    IN  [cc_max |-> IF ccs # <<>> THEN Max(ToSet(ccs)) ELSE 1, cc_avg |-> cc_avg,
         halstead_volume |-> hal_vol, nloc |-> analysis.nloc,
         maintainability_index |->
             Clamp(0, 100000, RawMaintainability(hal_vol, cc_avg, analysis.nloc)),
         code_smells |-> Cardinality({i \in 1..Len(fl) : fl[i].length > 50})
                           + Cardinality({i \in 1..Len(fl) : fl[i].max_nested_depth > 3})
                           + (IF analysis.nloc > 400 THEN 1 ELSE 0),
         n_methods |-> Len(fl)]

\* lines 106-126 and 140: the figures derived from lizard's analysis and
\* the Halstead volume
JavaMetrics(hal_vol, analysis) ==
    LET fl == analysis.function_list
        ccs == [i \in 1..Len(fl) |-> fl[i].cyclomatic_complexity]
        cc_max == IF ccs # <<>> THEN Max(ToSet(ccs)) ELSE 1
        cc_avg == IF ccs # <<>> THEN (SumSeq(ccs) * 1000) \div Len(ccs) ELSE 1000
        nloc == IF analysis.nloc # 0 THEN analysis.nloc ELSE 1
        hv == IF hal_vol > 0 THEN hal_vol ELSE 8
        cc_val == IF cc_avg > 0 THEN cc_avg ELSE 1000
        mi == Clamp(0, 100000, RawMaintainability(hv, cc_val, nloc))
        smells == Cardinality({i \in 1..Len(fl) : fl[i].length > 50})
                    + Cardinality({i \in 1..Len(fl) : fl[i].max_nested_depth > 3})
                    + (IF nloc > 400 THEN 1 ELSE 0)
    IN  [cc_max |-> cc_max, cc_avg |-> cc_avg, halstead_volume |-> hal_vol,
         nloc |-> nloc, maintainability_index |-> mi, code_smells |-> smells,
         n_methods |-> Len(fl)]

\* the empty dict {}
EmptyDict == <<>>

\* `if res:`
NonEmpty(res) == DOMAIN res # {}

analyze_java_file(file, analysis) ==
    IF ~file.readable THEN EmptyDict
    ELSE IF ~analysis.ok THEN EmptyDict
    ELSE LET m == JavaMetrics(compute_halstead(file).halstead_volume, analysis)
             lc == compute_loc_and_comments(file)
         IN  [cc_max |-> m.cc_max, cc_avg |-> m.cc_avg,
              halstead_volume |-> m.halstead_volume, nloc |-> m.nloc,
              physical_loc |-> lc.total_lines,
              comment_percentage |-> lc.comment_percentage,
              maintainability_index |-> m.maintainability_index,
              code_smells |-> m.code_smells, n_methods |-> m.n_methods]

----------------------------------------------------------------------------
(* analyze_static.py: main as a state machine *)

Ln_assign == <<"a", " ", "=", " ", "b", " ", "+", " ", "a", ";">>
Ln_block == <<"/", "*", " ", "c", " ", "*", "/">>

Fn_simple == Function(1, 3, 1)
Fn_branchy == Function(7, 60, 4)
Fn_monster == Function(300, 2000, 9)

\* an empty file
Java_empty == [file |-> File(TRUE, <<>>), analysis |-> Analysis(TRUE, <<>>, 0)]
\* one method of one statement
Java_assign == [file |-> File(TRUE, Text(<<Ln_int_f, Ln_assign, Ln_close>>)),
                analysis |-> Analysis(TRUE, <<Fn_simple>>, 3)]
\* a file whose open() fails
Java_locked == [file |-> File(FALSE, Text(<<Ln_assign>>)),
                analysis |-> Analysis(TRUE, <<>>, 1)]
\* a file on which lizard raises
Java_broken == [file |-> File(TRUE, Text(<<Ln_close>>)),
                analysis |-> Analysis(FALSE, <<>>, 0)]
\* comments only
Java_comment == [file |-> File(TRUE, Text(<<Ln_comment, Ln_block>>)),
                 analysis |-> Analysis(TRUE, <<>>, 0)]

JavaCatalogue == <<Java_empty, Java_assign, Java_locked, Java_broken, Java_comment>>

\* lines 148-158: the arguments, the rglob listing (in whatever order the
\* directory yields), the empty rows
StaticDiscover ==
    /\ static_pc = "start"
    /\ java_files' \in Perms(java_tree)
    /\ java_idx' = 1
    /\ static_rows' = <<>>
    /\ static_pc' = "analyze"
    /\ UNCHANGED <<fn_vars, main_vars, java_tree, static_out>>

\* lines 159-173: one iteration of `for f in java_files`
StaticAnalyze ==
    /\ static_pc = "analyze" /\ java_idx <= Len(java_files)
    /\ LET f == JavaCatalogue[java_files[java_idx]]
           res == analyze_java_file(f.file, f.analysis)
       IN  static_rows' = IF NonEmpty(res)
                          THEN Append(static_rows, [filename |-> java_files[java_idx],
                                                    res |-> res])
                          ELSE static_rows
    /\ java_idx' = java_idx + 1
    /\ UNCHANGED <<fn_vars, main_vars, static_pc, java_tree, java_files, static_out>>

\* lines 175-181: the CSV is written if there is a row
StaticWrite ==
    /\ static_pc = "analyze" /\ java_idx > Len(java_files)
    /\ static_out' = IF static_rows # <<>>
                      THEN [written |-> TRUE, rows |-> static_rows]
                      ELSE [written |-> FALSE]
    /\ static_pc' = "done"
    /\ UNCHANGED <<fn_vars, main_vars, java_tree, java_files, java_idx, static_rows>>

InitStatic ==
    /\ fn_pc = "idle" /\ fn_arg = None /\ fn_ret = None
    /\ PipelineIdle
    /\ static_pc = "start"
    /\ java_tree \in {t \in SUBSET (1..Len(JavaCatalogue)) : Cardinality(t) <= MaxFiles}
    /\ java_files = <<>> /\ java_idx = 0
    /\ static_rows = <<>> /\ static_out = [written |-> FALSE]

NextStatic == StaticDiscover \/ StaticAnalyze \/ StaticWrite

SpecStatic == InitStatic /\ [][NextStatic]_vars

\* the rows of the per-file output (none when no CSV was written)
StaticOutRows == IF static_out.written THEN static_out.rows ELSE <<>>

\* C17 as stated: a file whose reading or parsing fails does not stop the
\* run and still appears in the per-file output, with zero or empty metrics:
\* the output has as many rows as files were discovered.
C17_Original ==
    static_pc = "done" =>
        /\ Len(StaticOutRows) = Len(java_files)
        /\ \A i \in 1..Len(java_files) :
              \E j \in 1..Len(StaticOutRows) : StaticOutRows[j].filename = java_files[i]

----------------------------------------------------------------------------
(* Claims on the cross-file merge of build_callgraph *)

\* the names the definition lines of a file make the current function
DefNames(file) ==
    LET lines == ReadLines(file.content)
        name(k) == CgLineStep(file.ext, None, EmptyGraph, lines[k]).current_func
    IN  {name(k) : k \in {j \in 1..Len(lines) : Truthy(name(j))}}

\* for every file of the catalogue and every name it defines, the call-like
\* tokens on the lines of the file attributed to that name
CatalogueSites ==
    [i \in 1..Len(Catalogue) |->
        [f \in DefNames(Catalogue[i]) |->
            ToSet(CallSites(Catalogue[i].ext, None, f, ReadLines(Catalogue[i].content)))]]

\* the call-like tokens on the lines of file i attributed to f
FileSites(i, f) == IF f \in DOMAIN CatalogueSites[i] THEN CatalogueSites[i][f] ELSE {}

\* C18: the cross-file merge is a flat union by name: once build_callgraph
\* has returned, CallGraph[f] is, for every name f, the union over all
\* scanned files and all definitions of f in them of the call-like tokens on
\* the lines attributed to f (f being a key exactly when there is such a
\* token); and while it runs, no edge taken from a file it has finished with
\* is lost or overwritten when another file defining the same name is read.
C18_FlatUnion ==
    /\ pc \in {"fan", "aggregate", "write", "done"} =>
          \A f \in DOMAIN callgraph \cup UNION {DOMAIN CatalogueSites[i] : i \in ReadableScanned} :
              /\ f \in DOMAIN callgraph <=> UNION {FileSites(i, f) : i \in ReadableScanned} # {}
              /\ f \in DOMAIN callgraph =>
                    callgraph[f] = UNION {FileSites(i, f) : i \in ReadableScanned}
    /\ pc = "callgraph" =>
          \A i \in {j \in CgCompleted : Catalogue[j].readable} :
              \A f \in DOMAIN CatalogueSites[i] :
                  FileSites(i, f) # {} =>
                      f \in DOMAIN callgraph /\ FileSites(i, f) \subseteq callgraph[f]

\* c is defined in two files: one gives it the callees a and b, the other,
\* read later, the callee a only; the node c has both and a has its own
C18_Witness ==
    /\ pc = "done"
    /\ files = <<3, 2>>
    /\ FileSites(3, <<"c">>) = {<<"a">>, <<"b">>}
    /\ FileSites(2, <<"c">>) = {<<"a">>}
    /\ FileSites(2, <<"a">>) = {<<"b">>}
    /\ callgraph = (<<"a">> :> {<<"b">>}) @@ (<<"c">> :> {<<"a">>, <<"b">>})

----------------------------------------------------------------------------
(* Harness for the maintainability index: lines 106-126 of                  *)
(* analyze_java_file applied to a Halstead volume (in eighths) and a       *)
(* lizard analysis drawn from small to very large figures                   *)

HalVolumes == {0, 24, 8000, 400000}
NlocValues == {0, 1, 80, 401, 100000}

CallJavaMetrics ==
    /\ fn_pc = "call"
    /\ fn_ret' = JavaMetrics(fn_arg.hal_vol, fn_arg.analysis)
    /\ fn_pc' = "returned"
    /\ UNCHANGED <<fn_arg, main_vars, static_vars>>

InitMI ==
    /\ fn_pc = "call"
    /\ fn_arg \in {[hal_vol |-> v, analysis |-> Analysis(TRUE, fl, n)] :
                      v \in HalVolumes,
                      fl \in SeqUpTo({Fn_simple, Fn_branchy, Fn_monster}, MaxFunctions),
                      n \in NlocValues}
    /\ fn_ret = None
    /\ PipelineIdle
    /\ StaticIdle

NextMI == CallJavaMetrics

SpecMI == InitMI /\ [][NextMI]_vars

\* C19: whenever the metrics of a file are computed, the maintainability
\* index lies in [0, 100], for every volume, average complexity and logical
\* size, those replaced because they were 0 included.
C19_Bounds ==
    fn_pc = "returned" =>
        /\ fn_ret.maintainability_index >= 0
        /\ fn_ret.maintainability_index <= 100000

\* a very large file of one very complex function: the formula gives a
\* negative value and the index returned is 0
C19_Witness ==
    /\ fn_pc = "returned"
    /\ fn_arg = [hal_vol |-> 400000, analysis |-> Analysis(TRUE, <<Fn_monster>>, 100000)]
    /\ RawMaintainability(400000, 300000, 100000) < 0
    /\ fn_ret.maintainability_index = 0

----------------------------------------------------------------------------
(* Harness for one .java file measured by both scripts: the per-file        *)
(* functions of assignment_1.py and analyze_java_file                      *)

JavaLines == {Ln_int_f, Ln_assign, Ln_close, Ln_comment, Ln_block}

Ext_java == ".java"

\* what lizard may return for a text: for the empty text no function and
\* nloc 0; else it raises, or reports at most one simple function and an
\* nloc of at most the number of lines
LizardOutcomes(content) ==
    IF content = <<>> THEN {Analysis(TRUE, <<>>, 0)}
    ELSE {Analysis(FALSE, <<>>, 0)}
           \cup {Analysis(TRUE, fl, n) : fl \in {<<>>, <<Fn_simple>>},
                                        n \in 0..Len(ReadLines(content))}

CallMeasureJava ==
    /\ fn_pc = "call"
    /\ fn_ret' = [loc_physical |-> count_physical_loc_file(fn_arg.file),
                  loc_logical |-> count_logical_loc_file(fn_arg.file),
                  cc |-> compute_cyclomatic_complexity(fn_arg.file),
                  halstead_volume |-> compute_halstead(fn_arg.file).halstead_volume,
                  metrics |-> analyze_java_file(fn_arg.file, fn_arg.analysis)]
    /\ fn_pc' = "returned"
    /\ UNCHANGED <<fn_arg, main_vars, static_vars>>

InitJava ==
    /\ fn_pc = "call"
    /\ fn_arg \in UNION {{[file |-> SourceFile(<<>>, "t", Ext_java, TRUE, Text(ls)),
                             analysis |-> a] : a \in LizardOutcomes(Text(ls))} :
                              ls \in SeqUpTo(JavaLines, MaxLines)}
    /\ fn_ret = None
    /\ PipelineIdle
    /\ StaticIdle

NextJava == CallMeasureJava

SpecJava == InitJava /\ [][NextJava]_vars

\* the stated formula, in thousandths, for a volume (in eighths) and a
\* logical size both floored at 1:
\* 171 - 5.2 ln(volume) - 0.23 complexity_avg - 16.2 ln(logical_size)
StatedMaintainability(volume, complexity_avg, logical_size) ==
    171000 - (52 * (Ln1000(IF volume < 8 THEN 8 ELSE volume) - Ln1000(8))) \div 10
           - (23 * complexity_avg) \div 100
           - (162 * Ln1000(IF logical_size < 1 THEN 1 ELSE logical_size)) \div 10

\* C20: Scenario C: an empty file has physical LOC 0 and logical LOC 0,
\* complexity total 0 with no function score, Halstead volume 0, and a
\* maintainability index equal to the clamp to [0, 100] of the formula
\* evaluated with volume and logical size floored at 1, which is 100.
C20_ScenarioC ==
    (fn_pc = "returned" /\ fn_arg.file.content = <<>>) =>
        /\ fn_ret.loc_physical = 0
        /\ fn_ret.loc_logical = 0
        /\ fn_ret.cc.cc_total = 0
        /\ fn_ret.cc.cc_per_func = <<>>
        /\ fn_ret.halstead_volume = 0
        /\ NonEmpty(fn_ret.metrics)
        /\ fn_ret.metrics.halstead_volume = 0
        /\ fn_ret.metrics.nloc = 1
        /\ fn_ret.metrics.maintainability_index =
              Clamp(0, 100000, StatedMaintainability(0, fn_ret.metrics.cc_avg, 0))
        /\ fn_ret.metrics.maintainability_index = 100000

\* the empty file has been measured by both scripts
C20_Witness ==
    /\ fn_pc = "returned"
    /\ fn_arg.file.content = <<>>
    /\ fn_arg.analysis = Analysis(TRUE, <<>>, 0)
    /\ fn_ret.loc_physical = 0
    /\ fn_ret.metrics.physical_loc = 0
    /\ fn_ret.metrics.maintainability_index = 100000

----------------------------------------------------------------------------
(* The single pass of compute_cyclomatic_complexity, line by line *)

\* the positions of the lines that match the function-definition heuristic
CcDefIndices(ext, lines) ==
    {i \in 1..Len(lines) : CcIsDefLine(ext, Strip(lines[i]))}

\* the last line of the function opened at line d: the line before the next
\* definition line, or the last line of the file
CcSegmentEnd(ext, lines, d) ==
    LET later == {j \in CcDefIndices(ext, lines) : j > d}
    IN  IF later = {} THEN Len(lines) ELSE Min(later) - 1

\* what one line adds: at most 1 for a control-flow keyword, at most 1 for
\* && or ||, and in .py files at most 1 for except
StatedCues(ext, s) ==
      (IF \E kw \in CcKeywords : CountOcc(s, kw) > 0 THEN 1 ELSE 0)
    + (IF CountOcc(s, Str_and) + CountOcc(s, Str_or) > 0 THEN 1 ELSE 0)
    + (IF ext = Ext_py /\ CountOcc(s, Str_except) > 0 THEN 1 ELSE 0)

\* the score of the function opened at line d
CcSegmentScore(ext, lines, d) ==
    1 + SumSeq([i \in 1..(CcSegmentEnd(ext, lines, d) - d + 1) |->
                   StatedCues(ext, Strip(lines[d + i - 1]))])

\* C21: compute_cyclomatic_complexity is a single pass: every definition
\* line commits the open function and opens a new one with score 1; every
\* line from a definition line (inclusive) to the next definition line
\* (exclusive) or the end of the file adds to that function at most 1 for a
\* control-flow keyword, at most 1 for && or ||, and in .py files at most 1
\* for except; the last open function is committed at the end of the file;
\* cues before the first definition line are counted in no function and not
\* in file_total.
C21_SinglePass ==
    fn_pc = "returned" =>
        LET ext == fn_arg.ext
            lines == ReadLines(fn_arg.content)
            D == CcDefIndices(ext, lines)
            name(d) == CcNameOf(ext, Strip(lines[d]))
        IN  /\ DictKeys(fn_ret.cc_per_func) = {name(d) : d \in D}
            /\ \A d \in D :
                  (\A e \in D : e > d => name(e) # name(d)) =>
                      DictGet(fn_ret.cc_per_func, name(d)) = CcSegmentScore(ext, lines, d)
            /\ fn_ret.cc_total =
                  SumSeq([i \in 1..Len(lines) |->
                             IF i \in D THEN CcSegmentScore(ext, lines, i) ELSE 0])

\* a C file has been measured in which an if precedes the first definition
\* and the second definition line itself holds `else if` and ||
C21_Witness ==
    /\ fn_pc = "returned"
    /\ fn_arg.ext = Ext_c
    /\ fn_arg.content = Text(<<Ln_if_and, Ln_int_f, Ln_else_if>>)
    /\ CcDefIndices(Ext_c, ReadLines(fn_arg.content)) = {2, 3}
    /\ fn_ret.cc_per_func = << << <<"f">>, 1>>, << <<"i", "f">>, 3>> >>
    /\ fn_ret.cc_total = 4

----------------------------------------------------------------------------
(* Boundary and pre-function lines of build_callgraph *)

\* the line matches the function-definition heuristic of the file's family
CgIsDefLine(ext, s) ==
    \/ ext = Ext_py /\ StartsWith(s, Str_def_sp)
    \/ ext # Ext_py /\ ext \in CLikeExts /\ CDefName(s) # None

\* the names each file of the catalogue defines
CatalogueDefNames == [i \in 1..Len(Catalogue) |-> DefNames(Catalogue[i])]

\* C22: build_callgraph leaves the call graph unchanged on boundary and
\* pre-function lines: a function-definition line adds no edge, even when
\* call-like tokens stand on it, and a line read before the first function
\* definition of a file adds no edge; the current-function pointer is reset
\* when a file is opened, so the caller of every edge a line adds is a
\* function defined in the file the line belongs to.
C22_BoundaryLines ==
    [][/\ (pc = "callgraph" /\ cg.open) =>
             /\ (/\ cg.lines # <<>>
                 /\ \/ CgIsDefLine(Catalogue[files[cg.file]].ext, Strip(Head(cg.lines)))
                    \/ ~Truthy(cg.current_func)) => callgraph' = callgraph
             /\ \A f \in DOMAIN callgraph' :
                   (f \notin DOMAIN callgraph \/ callgraph'[f] # callgraph[f]) =>
                       f \in CatalogueDefNames[files[cg.file]]
       /\ (pc = "callgraph" /\ ~cg.open /\ pc' = "callgraph" /\ cg'.open) =>
             /\ cg'.current_func = None
             /\ callgraph' = callgraph]_vars

\* after a file whose two definition lines each hold a call, a script with a
\* call but no definition has been read to its end: no edge was added
C22_Witness ==
    /\ pc = "callgraph"
    /\ files = <<1, 5>>
    /\ cg.file = 2 /\ cg.open /\ cg.lines = <<>>
    /\ FUNC_CALL_RE_PY(Strip(Ln_def_a_b)) # <<>>
    /\ FUNC_CALL_RE_PY(Strip(Ln_y)) # <<>>
    /\ cg.current_func = None
    /\ callgraph = EmptyGraph

----------------------------------------------------------------------------
(* Harness for compute_loc_and_comments: .java files of up to MaxLines      *)
(* lines, code and comments of both kinds                                   *)

\* a line comment that holds a block comment
Ln_comment_block == <<"/", "/", " ", "/", "*", " ", "c", " ", "*", "/">>
Ln_block_open == <<"/", "*">>
Ln_block_close == <<"*", "/">>

CommentLines == {Ln_assign, Ln_comment, Ln_block, Ln_comment_block, Ln_block_open,
                 Ln_block_close}

CallLocAndComments ==
    /\ fn_pc = "call"
    /\ fn_ret' = compute_loc_and_comments(fn_arg)
    /\ fn_pc' = "returned"
    /\ UNCHANGED <<fn_arg, main_vars, static_vars>>

InitComments ==
    /\ fn_pc = "call"
    /\ fn_arg \in {SourceFile(<<>>, "T", Ext_java, TRUE, Text(ls)) :
                      ls \in SeqUpTo(CommentLines, MaxLines)}
    /\ fn_ret = None
    /\ PipelineIdle
    /\ StaticIdle

NextComments == CallLocAndComments

SpecComments == InitComments /\ [][NextComments]_vars

\* C23 as stated: for every file the reported comment percentage lies in
\* [0, 100]: the single-line comment lines plus the lines spanned by
\* multi-line comment blocks never exceed the physical line count.
C23_Original ==
    fn_pc = "returned" =>
        /\ 0 <= fn_ret.comment_percentage /\ fn_ret.comment_percentage <= 100 * 100
        /\ fn_ret.comment_lines <= fn_ret.total_lines

----------------------------------------------------------------------------
(* The operator vocabulary of compute_halstead *)

\* the operators of the text s when every entry of the vocabulary is one
\* token: at each position the longest entry standing there
RECURSIVE StatedOperators(_)
StatedOperators(s) ==
    IF s = <<>> THEN <<>>
    ELSE LET n == Max({0} \cup {k \in 1..3 : k <= Len(s) /\ SubSeq(s, 1, k) \in JAVA_OPERATORS})
         IN  IF n > 0
             THEN <<SubSeq(s, 1, n)>> \o StatedOperators(Drop(s, n + 1))
             ELSE StatedOperators(Drop(s, 2))

\* C24 as stated: compute_halstead recognises every entry of its operator
\* vocabulary: each occurrence in the comment-stripped text of a
\* multi-character operator (&&, ==, ->, ::, +=, >>>, ++ ...) is counted as
\* one occurrence of that operator in N1 and adds that operator to the
\* distinct count n1, rather than being counted as its characters.
C24_Original ==
    fn_pc = "returned" =>
        LET stripped == StripBlockComments(StripLineComments(
                            UniversalNewlines(fn_arg.content)))
            operators == StatedOperators(stripped)
        IN  /\ fn_ret.N1 = Len(operators)
            /\ fn_ret.n1 = Cardinality(ToSet(operators))

====
